---- MODULE Spec2Model ----
(***************************************************************************)
(* Model of src/util/iterator.hpp (namespace top1): the iterator adaptor,  *)
(* the fractional-step iterator FloatStepIterImpl and the generating       *)
(* iterator GeneratingIterImpl.                                            *)
(*                                                                         *)
(* Single-precision numbers.  `step` and `_error` are C++ `float`s (IEEE   *)
(* binary32, round to nearest, ties to even).  A float x is held as the    *)
(* integer x * 2^27.  Every float the model computes is a multiple of      *)
(* 2^-27 of magnitude below 16, and on those values the operators below    *)
(* compute exactly what binary32 computes: a multiple of 2^-27 below 1/8   *)
(* is representable as it stands, and from 1/8 upwards the spacing of the  *)
(* floats is a multiple of 2^-27.  -0.0 and 0.0 are one value (they        *)
(* compare equal and add alike).  Every float operation rounds on its own  *)
(* (FLT_EVAL_METHOD 0, no contraction of step * n + _error into one fused  *)
(* operation), as the x86-64 build of the header does.                     *)
(***************************************************************************)
EXTENDS Integers, Sequences, FiniteSets, TLC

\* ------------------------------------------------------------------ bounds

\* |n| of the advance(n), it + n, it - n and it[n] calls that are tried.
MaxN == 2
\* Number of state-changing calls in one run.
MaxOps == 2
\* Length of the wrapped array; the wrapped pointer stays in 0..SeqLen.
SeqLen == 10
\* Number of producer invocations in one run of the generating iterator.
MaxCalls == 8

\* ------------------------------------------------------- binary32 numbers

\* 1.0f in units of 2^-27.
One == 2^27

Abs(x) == IF x < 0 THEN -x ELSE x

Sign(x) == IF x < 0 THEN -1 ELSE 1

\* Quotient rounded toward zero (C++ conversion of a float to an integer,
\* and the integral part std::modf stores).
Trunc(x, d) == Sign(x) * (Abs(x) \div d)

\* Spacing of the binary32 numbers around magnitude m (24-bit significand),
\* in units of 2^-27: 1 below 2^24 units, doubling with every binade.
RECURSIVE Ulp(_)
Ulp(m) == IF m < 2^24 THEN 1 ELSE 2 * Ulp(m \div 2)

\* Round to nearest binary32, ties to even: the result of every float
\* operation whose exact result is x.
RoundF(x) ==
  LET m == Abs(x)
      u == Ulp(m)
      q == m \div u
      r == m % u
      up == (2 * r > u) \/ (2 * r = u /\ q % 2 = 1)
  IN Sign(x) * (IF up THEN q + 1 ELSE q) * u

\* float * float(n): n converts exactly, the product is rounded.
MulF(x, n) == RoundF(x * n)

\* float + float.
AddF(x, y) == RoundF(x + y)

\* Largest binary exponent e with 2^e < k (k >= 2), the binade of the
\* float just below the integer k.
RECURSIVE BinadeBelow(_)
BinadeBelow(k) == IF k <= 2 THEN 0 ELSE 1 + BinadeBelow((k + 1) \div 2)

\* (std::ptrdiff_t)(x / y) for floats x, y with y # 0: the quotient is rounded
\* to binary32 and then truncated toward zero.  With k = floor(|x| / |y|), the
\* rounded quotient is k + 1 when the exact quotient lies within half a
\* spacing below k + 1 (k + 1 has an even significand, so a tie goes to it),
\* and otherwise it stays in [k, k + 1).
DivTruncF(x, y) ==
  LET A == Abs(x)
      S == Abs(y)
      k == A \div S
      r == A % S
      twoOverUlp == IF k = 0 THEN 2^25 ELSE 2^(24 - BinadeBelow(k + 1))
      up == r # 0 /\ (S - r) <= S \div twoOverUlp
  IN Sign(x) * Sign(y) * (IF up THEN k + 1 ELSE k)

\* ------------------------------------------------------ FloatStepIterImpl

\* The steps tried: 0, -2^-26, -0.1f, -1, 2.5 (in units of 2^-27).
StepSet == {0, -2, -13421773, -One, 5 * 2^26}

\* The iterators float_step(iter, step) is tried on: the scenario from
\* position 0 with step 2.5, and every step from the middle of the array.
Fresh == {<<0, 5 * 2^26>>} \cup {<<5, s>> : s \in StepSet}

\* FloatStepIterImpl(const wrapped_type& iter, float step = 1.f):
\* iter {iter}, step {step}; _error = 0.f by its member initializer.
FloatStepIterImpl(iter, step) == [iter |-> iter, step |-> step, err |-> 0]

\* FloatStepIterImpl(const FloatStepIterImpl& r), and the adaptor's copy
\* constructor on top of it: the three members are copied.
CopyCtor(r) == [iter |-> r.iter, step |-> r.step, err |-> r.err]

\* float error() const
error(this) == this.err

\* wrapped_type data() const
data(this) == this.iter

\* equal, had it compared the steps as well.
equalWithStep(this, r) ==
  this.iter = r.iter /\ this.err = r.err /\ this.step = r.step

\* bool equal(const FloatStepIterImpl& r) const
equal(this, r) == this.iter = r.iter /\ this.err = r.err

\* void advance(int n)
advance(this, n) ==
  LET raw == AddF(this.err, MulF(this.step, n))
      whole == Trunc(raw, One)
      frac == raw - whole * One
      neg == frac < 0
      intPart == IF neg THEN whole - 1 ELSE whole
      newErr == IF neg THEN AddF(frac, One) ELSE frac
  IN [iter |-> this.iter + intPart, step |-> this.step, err |-> newErr]

\* What the conversion of an infinite or NaN float to std::ptrdiff_t may
\* give (undefined behaviour): any value, of which these stand for a
\* negative one, zero and a positive one.  The same stands for a read
\* outside the wrapped array and for a value never initialized.
Indeterminate == {-1, 0, 1}

\* std::ptrdiff_t difference(const FloatStepIterImpl& o) const: the set of
\* values the call may return.  With step = 0 the quotient is infinite or
\* NaN, and its conversion to std::ptrdiff_t is undefined.
difference(this, o) ==
  LET num == AddF((this.iter - o.iter) * One, AddF(this.err, -o.err))
  IN IF this.step = 0 THEN Indeterminate ELSE {DivTruncF(num, this.step)}

\* The wrapped array (the sequence 0, 1, ..., SeqLen - 1).
Data == [i \in 0..(SeqLen - 1) |-> i]

\* A wrapped pointer the caller may form: into the array or one past it.
InArray(this) == this.iter \in 0..SeqLen

\* decltype(auto) dereference(): *iter, the set of values the read may give.
\* Reading outside the array is undefined.
dereference(this) ==
  IF this.iter \in DOMAIN Data THEN {Data[this.iter]} ELSE Indeterminate

\* ------------------------------------------------------- iterator adaptor
\* A mutating operator gives [self |-> *this afterwards, ret |-> returned].

\* iterator_adaptor_impl operator++()
PreIncrement(this) == [self |-> advance(this, 1), ret |-> CopyCtor(this)]

\* iterator_adaptor_impl& operator++(int)
PostIncrement(this) ==
  LET moved == advance(this, 1) IN [self |-> moved, ret |-> moved]

\* iterator_adaptor_impl operator--()
PreDecrement(this) == [self |-> advance(this, -1), ret |-> CopyCtor(this)]

\* iterator_adaptor_impl& operator--(int)
PostDecrement(this) ==
  LET moved == advance(this, -1) IN [self |-> moved, ret |-> moved]

\* bool operator==(const iterator_adaptor_impl& r)
OperatorEq(this, r) == equal(this, r)

\* bool operator!=(const iterator_adaptor_impl& r)
OperatorNe(this, r) == ~equal(this, r)

\* operator+, had it advanced *this instead of a copy.
OperatorPlusInPlace(this, d) ==
  [self |-> advance(this, d), ret |-> advance(this, d)]

\* iterator_adaptor_impl operator+(difference_type d) const
OperatorPlus(this, d) ==
  [self |-> this, ret |-> advance(CopyCtor(this), d)]

\* iterator_adaptor_impl operator-(difference_type d) const
OperatorMinus(this, d) ==
  [self |-> this, ret |-> advance(CopyCtor(this), -d)]

\* difference_type operator-(const iterator_adaptor_impl& d) const
OperatorDiff(this, d) == difference(this, d)

\* bool operator<(const iterator_adaptor_impl& d) const
OperatorLess(this, d) == {x < 0 : x \in difference(this, d)}

\* bool operator>(const iterator_adaptor_impl& d) const
OperatorGreater(this, d) == {x > 0 : x \in difference(this, d)}

\* bool operator<=(const iterator_adaptor_impl& d) const
OperatorLessEq(this, d) == {x <= 0 : x \in difference(this, d)}

\* bool operator>=(const iterator_adaptor_impl& d) const
OperatorGreaterEq(this, d) == {x >= 0 : x \in difference(this, d)}

\* iterator_adaptor_impl& operator+=(difference_type d)
PlusAssign(this, d) ==
  LET moved == advance(this, d) IN [self |-> moved, ret |-> moved]

\* iterator_adaptor_impl& operator-=(difference_type d)
MinusAssign(this, d) ==
  LET moved == advance(this, -d) IN [self |-> moved, ret |-> moved]

\* reference operator[](difference_type d): *(*this + d)
OperatorIndex(this, d) ==
  LET sum == OperatorPlus(this, d)
  IN [self |-> sum.self, ret |-> dereference(sum.ret)]

\* ----------------------------------------------------- GeneratingIterImpl

\* The producer: a callable counting up from its captured value.  `count` is
\* its captured state; `log` records the value of every invocation, in order.
Producer(start) == [count |-> start, log |-> <<>>]

\* std::invoke(generator): the value returned and the producer afterwards.
invoke(generator) ==
  [ret |-> generator.count,
   next |-> [count |-> generator.count + 1,
             log |-> Append(generator.log, generator.count)]]

\* The values the producers tried start counting from.
CountFrom == {0, 5}

\* GeneratingIterImpl(Generator generator): generator {generator}; val is
\* left uninitialized, so it holds v, any value.
GeneratingIterImpl(generator, v) == [val |-> v, generator |-> generator]

\* for (int i = 0; i < n; i++) { val = std::invoke(generator); }
RECURSIVE AdvanceLoop(_, _, _)
AdvanceLoop(this, i, n) ==
  IF i < n
  THEN AdvanceLoop([val |-> invoke(this.generator).ret,
                    generator |-> invoke(this.generator).next], i + 1, n)
  ELSE this

\* advance, had its loop run while i <= n.
GenAdvanceInclusive(this, n) == AdvanceLoop(this, 0, n + 1)

\* void GeneratingIterImpl::advance(int n)
GenAdvance(this, n) == AdvanceLoop(this, 0, n)

\* value_type& GeneratingIterImpl::dereference()
GenDereference(this) == this.val

\* iterator_adaptor_impl operator++() on the generating iterator
GenPreIncrement(this) == [self |-> GenAdvance(this, 1), ret |-> this]

\* iterator_adaptor_impl& operator++(int) on the generating iterator
GenPostIncrement(this) ==
  LET moved == GenAdvance(this, 1) IN [self |-> moved, ret |-> moved]

\* ------------------------------------------------------------------ state

VARIABLES
  a,       \* a float_step_iterator: [iter, step, err]
  b,       \* a second float_step_iterator
  op,      \* the last call on a or b: [name, arg, outcome]
  ret,     \* what that call returned
  nops,    \* number of state-changing calls so far
  first,   \* history: the iterator as float_step(iter, step) constructed it
  ha,      \* history of a since `first`: [total, calls, units, fixed]
  hb,      \* history of b since `first`
  copyOf,  \* history: how a relates to b: [state, d]
  gen,     \* a generating_iterator: [val, generator]
  gop,     \* the last call on gen: [name, n]
  gret     \* what that call returned

fvars == <<a, b, op, ret, nops, first, ha, hb, copyOf>>
gvars == <<gen, gop, gret>>
vars == <<a, b, op, ret, nops, first, ha, hb, copyOf, gen, gop, gret>>

\* History of an iterator nothing was called on.
Untouched == [total |-> 0, calls |-> 0, units |-> TRUE, fixed |-> TRUE]

\* History after advance(n) ran once more.
Moved(h, n) ==
  [total |-> h.total + n, calls |-> h.calls + 1,
   units |-> h.units /\ n = 1, fixed |-> h.fixed]

Call(name, arg) == [name |-> name, arg |-> arg, outcome |-> "returned"]

Counts == (-MaxN)..MaxN

\* float_step(iter, step) makes b, and a is copy-constructed from it.
InitFloat ==
  /\ \E f \in Fresh :
        /\ b = FloatStepIterImpl(f[1], f[2])
        /\ a = CopyCtor(FloatStepIterImpl(f[1], f[2]))
        /\ first = FloatStepIterImpl(f[1], f[2])
  /\ op = Call("float_step", 0)
  /\ ret = 0
  /\ nops = 0
  /\ ha = Untouched
  /\ hb = Untouched
  /\ copyOf = [state |-> "copy", d |-> 0]

\* generator(gen) makes the generating iterator.
InitGen ==
  /\ \E v \in Indeterminate, c \in CountFrom :
        gen = GeneratingIterImpl(Producer(c), v)
  /\ gop = [name |-> "generator", n |-> 0]
  /\ gret = 0

\* The float-step iterators, and a generating iterator nothing is called on.
Init ==
  /\ InitFloat
  /\ gen = GeneratingIterImpl(Producer(0), 0)
  /\ gop = [name |-> "generator", n |-> 0]
  /\ gret = 0

\* The generating iterator, and float-step iterators nothing is called on.
GenInit ==
  /\ InitGen
  /\ a = FloatStepIterImpl(0, One)
  /\ b = FloatStepIterImpl(0, One)
  /\ first = FloatStepIterImpl(0, One)
  /\ op = Call("float_step", 0)
  /\ ret = 0
  /\ nops = 0
  /\ ha = Untouched
  /\ hb = Untouched
  /\ copyOf = [state |-> "copy", d |-> 0]

\* ---------------------------------------------- calls that change a or b

\* A mutating operator of a ran: r = [self, ret], n the steps it advanced.
MutateA(name, arg, r, n) ==
  /\ nops < MaxOps
  /\ InArray(r.self)
  /\ a' = r.self
  /\ ret' = r.ret
  /\ op' = Call(name, arg)
  /\ nops' = nops + 1
  /\ ha' = Moved(ha, n)
  /\ copyOf' = IF copyOf.state = "copy"
               THEN [state |-> "moved", d |-> n]
               ELSE [state |-> "none", d |-> 0]
  /\ UNCHANGED <<b, first, hb>>
  /\ UNCHANGED gvars

\* ++a
DoPreIncrement == MutateA("preinc", 0, PreIncrement(a), 1)

\* a++
DoPostIncrement == MutateA("postinc", 0, PostIncrement(a), 1)

\* --a
DoPreDecrement == MutateA("predec", 0, PreDecrement(a), -1)

\* a--
DoPostDecrement == MutateA("postdec", 0, PostDecrement(a), -1)

\* a += d
DoPlusAssign == \E d \in Counts : MutateA("pluseq", d, PlusAssign(a, d), d)

\* a -= d
DoMinusAssign == \E d \in Counts : MutateA("minuseq", d, MinusAssign(a, d), -d)

\* a.step = s (step is a public member)
SetStep ==
  \E s \in StepSet :
    /\ nops < MaxOps
    /\ s # a.step
    /\ a' = [a EXCEPT !.step = s]
    /\ op' = Call("step", s)
    /\ ret' = 0
    /\ nops' = nops + 1
    /\ ha' = [ha EXCEPT !.fixed = FALSE]
    /\ copyOf' = [state |-> "none", d |-> 0]
    /\ UNCHANGED <<b, first, hb>>
    /\ UNCHANGED gvars

\* a is made anew as a copy of b (copy construction).
Copy ==
  /\ nops < MaxOps
  /\ a' = CopyCtor(b)
  /\ op' = Call("copy", 0)
  /\ ret' = 0
  /\ nops' = nops + 1
  /\ ha' = hb
  /\ copyOf' = [state |-> "copy", d |-> 0]
  /\ UNCHANGED <<b, first, hb>>
  /\ UNCHANGED gvars

\* b += d
DoPlusAssignB ==
  \E d \in Counts :
    LET r == PlusAssign(b, d) IN
    /\ nops < MaxOps
    /\ InArray(r.self)
    /\ b' = r.self
    /\ ret' = r.ret
    /\ op' = Call("pluseqB", d)
    /\ nops' = nops + 1
    /\ hb' = Moved(hb, d)
    /\ copyOf' = [state |-> "none", d |-> 0]
    /\ UNCHANGED <<a, first, ha>>
    /\ UNCHANGED gvars

\* ------------------------------------------- calls that leave a, b alone

\* A call on a returned v; self is a afterwards.
QueryA(name, arg, self, v) ==
  /\ a' = self
  /\ ret' = v
  /\ op' = Call(name, arg)
  /\ UNCHANGED <<b, nops, first, ha, hb, copyOf>>
  /\ UNCHANGED gvars

\* a == b
DoEq == QueryA("eq", 0, a, OperatorEq(a, b))

\* a != b
DoNe == QueryA("ne", 0, a, OperatorNe(a, b))

\* a - b
DoDiff == \E v \in OperatorDiff(a, b) : QueryA("diff", 0, a, v)

\* a < b
DoLess == \E v \in OperatorLess(a, b) : QueryA("lt", 0, a, v)

\* a > b
DoGreater == \E v \in OperatorGreater(a, b) : QueryA("gt", 0, a, v)

\* a <= b
DoLessEq == \E v \in OperatorLessEq(a, b) : QueryA("le", 0, a, v)

\* a >= b
DoGreaterEq == \E v \in OperatorGreaterEq(a, b) : QueryA("ge", 0, a, v)

\* a + d
DoPlus ==
  \E d \in Counts :
    LET r == OperatorPlus(a, d) IN
    /\ InArray(r.ret)
    /\ QueryA("plus", d, r.self, r.ret)

\* a - d
DoMinus ==
  \E d \in Counts :
    LET r == OperatorMinus(a, d) IN
    /\ InArray(r.ret)
    /\ QueryA("minus", d, r.self, r.ret)

\* a[d]
DoIndex ==
  \E d \in Counts :
    LET r == OperatorIndex(a, d) IN
    /\ InArray(OperatorPlus(a, d).ret)
    /\ \E v \in r.ret : QueryA("index", d, r.self, v)

\* *a
DoDereference == \E v \in dereference(a) : QueryA("deref", 0, a, v)

Next ==
  \/ DoPreIncrement
  \/ DoPostIncrement
  \/ DoPreDecrement
  \/ DoPostDecrement
  \/ DoPlusAssign
  \/ DoMinusAssign
  \/ SetStep
  \/ Copy
  \/ DoPlusAssignB
  \/ DoEq
  \/ DoNe
  \/ DoDiff
  \/ DoLess
  \/ DoGreater
  \/ DoLessEq
  \/ DoGreaterEq
  \/ DoPlus
  \/ DoMinus
  \/ DoIndex
  \/ DoDereference

Spec == Init /\ [][Next]_vars

\* ------------------------------------------- the generating iterator's calls

\* The producer is invoked at most MaxCalls times in a run.
Room(n) == Len(gen.generator.log) + n <= MaxCalls

\* gen.advance(n) (advance is a public member of GeneratingIterImpl)
DoGenAdvance ==
  \E n \in (-1)..MaxN :
    /\ Room(n)
    /\ gen' = GenAdvance(gen, n)
    /\ gop' = [name |-> "advance", n |-> n]
    /\ gret' = 0
    /\ UNCHANGED fvars

\* ++gen
DoGenPreIncrement ==
  /\ Room(1)
  /\ gen' = GenPreIncrement(gen).self
  /\ gop' = [name |-> "preinc", n |-> 1]
  /\ gret' = GenPreIncrement(gen).ret.val
  /\ UNCHANGED fvars

\* gen++
DoGenPostIncrement ==
  /\ Room(1)
  /\ gen' = GenPostIncrement(gen).self
  /\ gop' = [name |-> "postinc", n |-> 1]
  /\ gret' = GenPostIncrement(gen).ret.val
  /\ UNCHANGED fvars

\* *gen
DoGenDereference ==
  /\ gen' = gen
  /\ gop' = [name |-> "deref", n |-> 0]
  /\ gret' = GenDereference(gen)
  /\ UNCHANGED fvars

GenNext ==
  \/ DoGenAdvance
  \/ DoGenPreIncrement
  \/ DoGenPostIncrement
  \/ DoGenDereference

GenSpec == GenInit /\ [][GenNext]_vars

\* ----------------------------------------------------------------- claims

\* C1: with first = iter(p, s), s # 0, and last = first + n for n > 0, n
\* successive advance(1) calls from iter(p, s) end where last is: the same
\* position and error (first == last), the step unchanged.  Here a is still
\* as constructed, a + n has just been returned, and b has come from the
\* same construction by n calls of advance(1).
C1_AdvanceEqualsIncrements ==
  (/\ op.name = "plus"
   /\ op.arg > 0
   /\ first.step # 0
   /\ ha.calls = 0 /\ ha.fixed
   /\ hb.units /\ hb.fixed /\ hb.calls = op.arg)
  => (equal(b, ret) /\ b.step = ret.step)

\* C2: the stored error of every iterator stays in [0, 1), whatever advance
\* calls and step changes have run.
C2_ErrorInUnitInterval ==
  /\ 0 <= error(a) /\ error(a) < One
  /\ 0 <= error(b) /\ error(b) < One

\* The logical position p + s * (n_1 + ... + n_k) of an iterator with history
\* h, in units of 2^-27.
Logical(h) == data(first) * One + first.step * h.total

\* C3: while the step is the one the iterator was constructed with, the
\* wrapped position plus the error is the logical position
\* p + s * (n_1 + ... + n_k).
C3_PositionPlusError ==
  /\ ha.fixed => data(a) * One + error(a) = Logical(ha)
  /\ hb.fixed => data(b) * One + error(b) = Logical(hb)

\* C4: when a is a copy of b that advance(d) has run on once, with a step
\* s # 0 left unchanged, a - b returns exactly d.
C4_RoundTrip ==
  (op.name = "diff" /\ copyOf.state = "moved" /\ a.step # 0)
  => ret = copyOf.d

\* C5: a++ and a-- return an iterator in the state a had before the call,
\* and leave a advanced by one step (advance(1), advance(-1)).
C5_PostReturnsOld ==
  [][/\ op'.name = "postinc" => (ret' = a /\ a' = advance(a, 1))
     /\ op'.name = "postdec" => (ret' = a /\ a' = advance(a, -1))]_vars

\* C6: advance(n), n >= 1, invokes the producer exactly n times, in order,
\* and leaves the value of the n-th of them as the current value; a
\* dereference returns the current value and invokes nothing; so after any
\* invocation the value read is the last one produced, and the k-th value
\* of a producer counting from c is c + k - 1.
C6_GeneratorAdvance ==
  [][LET old == gen.generator.log
         new == gen'.generator.log
     IN /\ (gop'.name = "advance" /\ gop'.n >= 1) =>
              /\ Len(new) = Len(old) + gop'.n
              /\ SubSeq(new, 1, Len(old)) = old
              /\ \A i \in 1..gop'.n :
                    new[Len(old) + i] = gen.generator.count + i - 1
              /\ gen'.val = new[Len(new)]
        /\ gop'.name = "deref" =>
              /\ gret' = gen.val
              /\ gen' = gen
              /\ new # <<>> => gret' = new[Len(new)]]_vars

\* C6 happens: a producer counting from 0 has been invoked four times and
\* the dereference after the fourth returned 3.
C6_Witness ==
  /\ gop.name = "deref"
  /\ gen.generator.log = <<0, 1, 2, 3>>
  /\ gret = 3

\* C7: a == b is true exactly when the wrapped positions and the errors both
\* match, whatever the steps are, and a != b is its negation.
C7_EqualIgnoresStep ==
  /\ op.name = "eq" => (ret <=> (data(a) = data(b) /\ error(a) = error(b)))
  /\ op.name = "ne" => (ret <=> ~(data(a) = data(b) /\ error(a) = error(b)))

\* C7 happens: a == b returned true for iterators whose steps differ.
C7_Witness == op.name = "eq" /\ ret = TRUE /\ a.step # b.step

\* C8: a zero step is an explicit error: constructing with step 0 or setting
\* step to 0 fails, and a - b with step 0 reports an error instead of
\* returning a number.
C8_ZeroStepRejected ==
  /\ (op.name \in {"float_step", "step"} /\ a.step = 0)
        => op.outcome = "InvalidStep"
  /\ (op.name = "diff" /\ a.step = 0) => op.outcome = "InvalidStep"

\* C9: a + n, a - n and a[n] leave a (and b) as they were; a + n and a - n
\* return a copy of a advanced by n and -n, and a[n] the value dereferenced
\* at a + n; a call that changes one of a and b leaves the other as it was.
C9_ValueSemantics ==
  [][/\ op'.name = "plus" =>
           (a' = a /\ b' = b /\ ret' = advance(CopyCtor(a), op'.arg))
     /\ op'.name = "minus" =>
           (a' = a /\ b' = b /\ ret' = advance(CopyCtor(a), -op'.arg))
     /\ op'.name = "index" =>
           (/\ a' = a /\ b' = b
            /\ ret' \in dereference(advance(CopyCtor(a), op'.arg)))
     /\ op'.name \in {"preinc", "postinc", "predec", "postdec", "pluseq",
                      "minuseq", "step", "copy"} => b' = b
     /\ op'.name = "pluseqB" => a' = a]_vars

\* C9 happens: a + n with n # 0 returned an iterator elsewhere than a, after
\* b had moved away from a.
C9_Witness ==
  /\ op.name = "plus" /\ op.arg # 0
  /\ ~equal(ret, a)
  /\ hb.calls > 0 /\ ~equal(a, b)

\* C10: for iterators from one construction whose step s # 0 never changed,
\* exactly one of a < b, a == b, a > b holds, a == b holds iff a - b == 0,
\* a <= b iff (a < b or a == b), and a >= b iff (a > b or a == b).
C10_OrderingConsistent ==
  (ha.fixed /\ hb.fixed /\ first.step # 0) =>
    LET lt == TRUE \in OperatorLess(a, b)
        gt == TRUE \in OperatorGreater(a, b)
        le == TRUE \in OperatorLessEq(a, b)
        ge == TRUE \in OperatorGreaterEq(a, b)
        eq == OperatorEq(a, b)
    IN /\ Cardinality({x \in {"lt", "eq", "gt"} :
                          \/ x = "lt" /\ lt
                          \/ x = "eq" /\ eq
                          \/ x = "gt" /\ gt}) = 1
       /\ eq <=> (0 \in OperatorDiff(a, b))
       /\ le <=> (lt \/ eq)
       /\ ge <=> (gt \/ eq)

====
